---- MODULE Spec2Model ----
(***************************************************************************)
(* NIH ExPORTER loader: the streaming extractor NIHAwardFile.awarditer     *)
(* (src/nihaward.py) and the load coordinator load_fiscal_year_range with  *)
(* the registry recomputations (src/nihloader.py), over a sqlite store.    *)
(***************************************************************************)
EXTENDS Integers, Sequences, FiniteSets, TLC

\* ------------------------------------------------------------- bounds ---
MaxFiles == 2      \* files in the batch of one fiscal-year range
MaxRows  == 2      \* row elements per file
MaxRuns  == 3      \* calls of load_fiscal_year_range
MaxGroups == 2     \* PI elements in a row

\* --------------------------------------------------------------- text ---
\* Text the ORDER BY compares is a sequence of character codes (ASCII):
\* sqlite's BINARY collation compares TEXT byte by byte.
Digit(n) == 48 + n

TwoDigits(n) == <<Digit(n \div 10), Digit(n % 10)>>

FourDigits(n) ==
    <<Digit(n \div 1000), Digit((n \div 100) % 10), Digit((n \div 10) % 10), Digit(n % 10)>>

\* The catalog page's date cell, MM/DD/YYYY (RE_8_DIGIT_DATE), of a calendar date.
FormatDate(dt) == TwoDigits(dt.m) \o <<47>> \o TwoDigits(dt.d) \o <<47>> \o FourDigits(dt.y)

\* The catalog page's fiscal-year cell, four digits (RE_FISCAL_YEAR).
FormatYear(y) == FourDigits(y)

Num(t, i, j) == IF j = i THEN t[i] - 48 ELSE 10 * (t[i] - 48) + (t[j] - 48)

\* The calendar date a MM/DD/YYYY text denotes.
ParseDate(t) ==
    [m |-> Num(t, 1, 2), d |-> Num(t, 4, 5),
     y |-> 100 * Num(t, 7, 8) + Num(t, 9, 10)]

\* The year a four-digit text denotes.
ParseYear(t) == 100 * Num(t, 1, 2) + Num(t, 3, 4)

\* a < b as TEXT under the BINARY collation (memcmp, then length).
RECURSIVE TextLess(_, _)
TextLess(a, b) ==
    IF b = <<>> THEN FALSE
    ELSE IF a = <<>> THEN TRUE
    ELSE IF Head(a) # Head(b) THEN Head(a) < Head(b)
    ELSE TextLess(Tail(a), Tail(b))

\* a before b in calendar order.
DateBefore(a, b) ==
    \/ a.y < b.y
    \/ a.y = b.y /\ a.m < b.m
    \/ a.y = b.y /\ a.m = b.m /\ a.d < b.d

\* The characters \s matches: tab, newline, vertical tab, form feed, return, space.
Whitespace == {9, 10, 11, 12, 13, 32}

\* str.strip()
RECURSIVE Strip(_)
Strip(t) ==
    IF t = <<>> THEN t
    ELSE IF Head(t) \in Whitespace THEN Strip(Tail(t))
    ELSE IF t[Len(t)] \in Whitespace THEN Strip(SubSeq(t, 1, Len(t) - 1))
    ELSE t

\* re.match(RE_FISCAL_YEAR, t) is not None, RE_FISCAL_YEAR = "^\s*(19|20)\d{2}\s*$"
MatchesFiscalYear(t) ==
    LET s == Strip(t)
    IN  /\ Len(s) = 4
        /\ SubSeq(s, 1, 2) \in {<<Digit(1), Digit(9)>>, <<Digit(2), Digit(0)>>}
        /\ \A i \in 3..4 : s[i] \in Digit(0)..Digit(9)

\* The argument None of fiscal_year_stop.
NoYear == <<-1>>

\* NIHAwardFile.__init__: the RuntimeError it raises, or the range it keeps.
NIHAwardFile(start, stop) ==
    LET stop2 == IF stop = NoYear THEN start ELSE stop
    IN  IF ~MatchesFiscalYear(start)
        THEN [ok |-> FALSE, error |-> "fiscal_year_start must be 4 digits"]
        ELSE IF ~MatchesFiscalYear(stop2)
        THEN [ok |-> FALSE, error |-> "fiscal_year_stop must be 4 digits"]
        ELSE IF ParseYear(Strip(start)) > ParseYear(Strip(stop2))
        THEN [ok |-> FALSE,
              error |-> "fiscal_year_stop cannot come before fiscal_year_start"]
        ELSE [ok |-> TRUE, fiscal_year_start |-> ParseYear(Strip(start)),
              fiscal_year_stop |-> ParseYear(Strip(stop2))]

\* int(fy) >= self.fiscal_year_start and int(fy) <= self.fiscal_year_stop
InRange(file, af) ==
    /\ ParseYear(file.fiscal_year) >= af.fiscal_year_start
    /\ ParseYear(file.fiscal_year) <= af.fiscal_year_stop

\* find_zip_file_urls over the rows of the catalog page, in page order.
RECURSIVE find_zip_file_urls(_, _)
find_zip_file_urls(catalog, af) ==
    IF catalog = <<>> THEN <<>>
    ELSE IF InRange(Head(catalog), af)
    THEN <<Head(catalog)>> \o find_zip_file_urls(Tail(catalog), af)
    ELSE find_zip_file_urls(Tail(catalog), af)

\* ----------------------------------------------------- XML documents ---
\* elem.text of an element without text.
None == "<None>"

\* Whitespace text of a pretty-printed container element.
Ws == " "

\* A local variable that has not been assigned yet.
Unbound == [unbound |-> TRUE]

\* The (event, elem) pairs ET.iterparse delivers; "error" is the point where
\* it raises ParseError instead of delivering an event.
StartEv(tag) == [ev |-> "start", tag |-> tag, text |-> None]

EndEv(tag, text) == [ev |-> "end", tag |-> tag, text |-> text]

Malformed == [ev |-> "error", tag |-> "", text |-> None]

Leaf(tag, text) == <<StartEv(tag), EndEv(tag, text)>>

Elem(tag, text, children) == <<StartEv(tag)>> \o children \o <<EndEv(tag, text)>>

RECURSIVE Cat(_)
Cat(ss) == IF ss = <<>> THEN <<>> ELSE Head(ss) \o Cat(Tail(ss))

\* -------------------------------------------------------- extractor ---
AVOIDED_XML_TAGS == {"PIS", "PI", "PI_NAME", "PI_ID", "PROJECT_TERMSX", "TERM"}

\* elem.tag.lower() for the tags of the documents.
Lower(tag) ==
    CASE tag = "APPLICATION_ID" -> "application_id"
      [] tag = "PROJECTS" -> "projects"
      [] tag = "FY" -> "fy"
      [] OTHER -> tag

\* NIHAward.__init__: the attributes the loader and the claims read.
NIHAward(name, fy, date, row) ==
    [source_file_name |-> name, source_fiscal_year |-> fy, source_file_date |-> date,
     source_file_row_number |-> row, application_id |-> "",
     project_terms |-> <<>>, principal_investigators |-> <<>>]

\* setattr(award, k, v)
SetAttr(a, k, v) == [x \in DOMAIN a \cup {k} |-> IF x = k THEN v ELSE a[x]]

\* The generator object before its first resumption.
NewGen ==
    [f |-> 1, p |-> 1, row_number |-> 0, award |-> Unbound,
     pi_name |-> "", pi_id |-> "", st |-> "ready", exc |-> "none"]

Raise(g, e) == [g EXCEPT !.st = "raised", !.exc = e]

\* Faulty variant: the parser recovers from malformed input and reads on.
SkipMalformed(g) == g

\* ET.iterparse meets input that is not well formed: ParseError leaves the
\* for loop and the generator.
ParseFailure(g) == Raise(g, "ParseError")

\* Faulty variant: a term the record holds already is not added again.
AppendNewTerm(terms, text) ==
    IF \E i \in 1..Len(terms) : terms[i] = text THEN terms ELSE Append(terms, text)

\* award.project_terms.append(elem.text)
AppendTerm(terms, text) == Append(terms, text)

\* Faulty variant: row_number is set once, before the loop over the files.
NextFileKeepingRowNumber(g) == [g EXCEPT !.f = @ + 1, !.p = 1, !.st = "running"]

\* The next pass of "for file in self.xml_files": row_number = 0, a new parse.
NextFile(g) == [g EXCEPT !.f = @ + 1, !.p = 1, !.row_number = 0, !.st = "running"]

\* Faulty variant: the scratch fields are set once and not at each PI start.
KeepScratch(g) == g

\* At the start of a PI element: pi_name = '', pi_id = ''.
ResetScratch(g) == [g EXCEPT !.pi_name = "", !.pi_id = ""]

\* One iteration of the iterparse loop body on event e of file.
OnEvent(g, e, file) ==
    IF e.ev = "error" THEN ParseFailure(g)
    ELSE IF e.ev = "start" THEN
        IF e.tag = "row" THEN
            [g EXCEPT !.award = NIHAward(file.xml_file, file.fiscal_year,
                                         file.file_date, g.row_number)]
        ELSE IF e.tag = "PI" THEN ResetScratch(g)
        ELSE g
    ELSE IF e.tag = "row" THEN
        [g EXCEPT !.row_number = @ + 1, !.st = "yielded"]
    ELSE IF e.text = None THEN g
    ELSE IF e.tag = "TERM" THEN
        IF g.award = Unbound THEN Raise(g, "UnboundLocalError")
        ELSE [g EXCEPT !.award.project_terms = AppendTerm(@, e.text)]
    ELSE IF e.tag = "PI_NAME" THEN [g EXCEPT !.pi_name = e.text]
    ELSE IF e.tag = "PI_ID" THEN [g EXCEPT !.pi_id = e.text]
    ELSE IF e.tag = "PI" THEN
        IF Len(g.pi_name) > 0 \/ Len(g.pi_id) > 0 THEN
            IF g.award = Unbound THEN Raise(g, "UnboundLocalError")
            ELSE [g EXCEPT !.award.principal_investigators =
                      Append(@, [pi_name |-> g.pi_name, pi_id |-> g.pi_id])]
        ELSE g
    ELSE IF e.tag \notin AVOIDED_XML_TAGS THEN
        IF g.award = Unbound THEN Raise(g, "UnboundLocalError")
        ELSE [g EXCEPT !.award = SetAttr(@, Lower(e.tag), e.text)]
    ELSE g

\* next(generator): run awarditer from where it is suspended to its next
\* yield ("yielded"), to the end of the last file ("finished") or to an
\* exception ("raised").  A generator that has raised is finished: the next
\* next() is StopIteration.
RECURSIVE Resume(_, _)
Resume(g, files) ==
    IF g.st = "finished" THEN g
    ELSE IF g.st = "raised" THEN [g EXCEPT !.st = "finished"]
    ELSE IF g.f > Len(files) THEN [g EXCEPT !.st = "finished"]
    ELSE IF g.p > Len(files[g.f].doc) THEN Resume(NextFile(g), files)
    ELSE
        LET h == OnEvent([g EXCEPT !.st = "running"], files[g.f].doc[g.p], files[g.f])
        IN  IF h.st = "raised" THEN h
            ELSE IF h.st = "yielded" THEN [h EXCEPT !.p = @ + 1]
            ELSE Resume([h EXCEPT !.p = @ + 1], files)

\* The records a whole batch yields when nothing stops the iteration.
RECURSIVE Drain(_, _)
Drain(g, files) ==
    LET h == Resume(g, files)
    IN  IF h.st = "yielded" THEN <<h.award>> \o Drain(h, files) ELSE <<>>

\* ------------------------------------------------------------ store ---
\* SQL NULL in the INTEGER column source_file_precedence_order.
NULL == 0

\* The rows of a new database file (a table that was not created has none).
EmptyDb ==
    [NIH_SOURCE_FILE |-> <<>>, NIH_PROJECT |-> <<>>,
     NIH_PROJECT_TERM |-> <<>>, NIH_PROJECT_INVESTIGATOR |-> <<>>]

\* The tables create_nih_tables creates if they do not exist.
CreatedTables(is_create_term_table, is_create_pi_table) ==
    {"NIH_SOURCE_FILE", "NIH_PROJECT"}
        \cup (IF is_create_term_table THEN {"NIH_PROJECT_TERM"} ELSE {})
        \cup (IF is_create_pi_table THEN {"NIH_PROJECT_INVESTIGATOR"} ELSE {})

\* Row ids are the positions: sqlite gives an INTEGER PRIMARY KEY max(rowid)+1.
Ids(table) == 1..Len(table)

\* Faulty variant: the table has no UNIQUE (source_file_name, source_file_date).
SourceFileKeyNeverTaken(d, name, date) == FALSE

\* NIH_SOURCE_FILE_UK1: is there a row with this (name, date)?
SourceFileKeyTaken(d, name, date) ==
    \E i \in Ids(d.NIH_SOURCE_FILE) :
        /\ d.NIH_SOURCE_FILE[i].source_file_name = name
        /\ d.NIH_SOURCE_FILE[i].source_file_date = date

\* Faulty variant: the id returned is the one of the file registered before.
InsertSourceFileStaleId(d, name, date, fy) ==
    IF SourceFileKeyTaken(d, name, date)
    THEN [ok |-> FALSE, db |-> d, lastrowid |-> 0]
    ELSE [ok |-> TRUE,
          db |-> [d EXCEPT !.NIH_SOURCE_FILE =
                     Append(@, [source_file_name |-> name, source_file_date |-> date,
                                source_file_fiscal_year |-> fy,
                                source_file_precedence_order |-> NULL])],
          lastrowid |-> Len(d.NIH_SOURCE_FILE)]

\* insert_source_file: ok = FALSE is sqlite.IntegrityError.
insert_source_file(d, name, date, fy) ==
    IF SourceFileKeyTaken(d, name, date)
    THEN [ok |-> FALSE, db |-> d, lastrowid |-> 0]
    ELSE [ok |-> TRUE,
          db |-> [d EXCEPT !.NIH_SOURCE_FILE =
                     Append(@, [source_file_name |-> name, source_file_date |-> date,
                                source_file_fiscal_year |-> fy,
                                source_file_precedence_order |-> NULL])],
          lastrowid |-> Len(d.NIH_SOURCE_FILE) + 1]

\* Faulty variant: the id of the row inserted last instead of the row looked up.
SelectLastSourceFileId(d, name, date) == Len(d.NIH_SOURCE_FILE)

\* SELECT nih_source_file_id ... WHERE source_file_name = ? AND source_file_date = ?
SelectSourceFileId(d, name, date) ==
    CHOOSE i \in Ids(d.NIH_SOURCE_FILE) :
        /\ d.NIH_SOURCE_FILE[i].source_file_name = name
        /\ d.NIH_SOURCE_FILE[i].source_file_date = date

\* Faulty variant: the COUNT(*) has no WHERE clause.
CountAllProjects(d, fid) == Len(d.NIH_PROJECT)

\* SELECT COUNT(*) FROM NIH_PROJECT WHERE nih_source_file_id = ?
CountProjects(d, fid) ==
    Cardinality({i \in Ids(d.NIH_PROJECT) : d.NIH_PROJECT[i].nih_source_file_id = fid})

\* Faulty variant: row[0] >= 0, a registered file counts as loaded.
IsLoadedWithoutRows(d, fid) == CountProjects(d, fid) >= 0

\* is_source_file_loaded = row[0] > 0
IsLoaded(d, fid) == CountProjects(d, fid) > 0

\* NIH_PROJECT_UK1: is there a row with this (application_id, nih_source_file_id)?
ProjectKeyTaken(d, app, fid) ==
    \E i \in Ids(d.NIH_PROJECT) :
        /\ d.NIH_PROJECT[i].application_id = app
        /\ d.NIH_PROJECT[i].nih_source_file_id = fid

\* insert_project: ok = FALSE is sqlite.IntegrityError.  application_id is
\* kept as the text of the tag (the column's INTEGER affinity maps distinct
\* decimal texts to distinct integers).
insert_project(d, a, fid) ==
    IF ProjectKeyTaken(d, a.application_id, fid)
    THEN [ok |-> FALSE, db |-> d, lastrowid |-> 0]
    ELSE [ok |-> TRUE,
          db |-> [d EXCEPT !.NIH_PROJECT =
                     Append(@, [application_id |-> a.application_id,
                                is_current_application_id |-> "N",
                                nih_source_file_id |-> fid,
                                source_file_row_number |-> a.source_file_row_number])],
          lastrowid |-> Len(d.NIH_PROJECT) + 1]

\* NIH_PROJECT_TERM_UK1: is there a row with this (nih_project_id, term)?
TermKeyTaken(d, pid, term) ==
    \E i \in Ids(d.NIH_PROJECT_TERM) :
        d.NIH_PROJECT_TERM[i].nih_project_id = pid /\ d.NIH_PROJECT_TERM[i].term = term

\* insert_project_terms: one INSERT per element of terms, in order; the first
\* INSERT that meets NIH_PROJECT_TERM_UK1 raises IntegrityError.
RECURSIVE insert_project_terms(_, _, _)
insert_project_terms(d, terms, pid) ==
    IF terms = <<>> THEN [ok |-> TRUE, db |-> d]
    ELSE IF TermKeyTaken(d, pid, Head(terms)) THEN [ok |-> FALSE, db |-> d]
    ELSE insert_project_terms(
             [d EXCEPT !.NIH_PROJECT_TERM =
                  Append(@, [nih_project_id |-> pid, term |-> Head(terms)])],
             Tail(terms), pid)

\* NIH_PROJECT_INVESTIGATOR_UK1: is there a row with this (nih_project_id, pi_id)?
InvestigatorKeyTaken(d, pid, pi_id) ==
    \E i \in Ids(d.NIH_PROJECT_INVESTIGATOR) :
        /\ d.NIH_PROJECT_INVESTIGATOR[i].nih_project_id = pid
        /\ d.NIH_PROJECT_INVESTIGATOR[i].pi_id = pi_id

\* insert_project_investigators: one INSERT per element, in order; the first
\* INSERT that meets NIH_PROJECT_INVESTIGATOR_UK1 raises IntegrityError.
RECURSIVE insert_project_investigators(_, _, _)
insert_project_investigators(d, pis, pid) ==
    IF pis = <<>> THEN [ok |-> TRUE, db |-> d]
    ELSE IF InvestigatorKeyTaken(d, pid, Head(pis).pi_id) THEN [ok |-> FALSE, db |-> d]
    ELSE insert_project_investigators(
             [d EXCEPT !.NIH_PROJECT_INVESTIGATOR =
                  Append(@, [nih_project_id |-> pid, pi_id |-> Head(pis).pi_id,
                             pi_name |-> Head(pis).pi_name])],
             Tail(pis), pid)

\* Faulty variant: the child rows are written whatever the options are.
InsertAwardFileUngated(d, a, fid, is_insert_term, is_insert_pi) ==
    LET prj == insert_project(d, a, fid)
        trm == insert_project_terms(prj.db, a.project_terms, prj.lastrowid)
        inv == insert_project_investigators(trm.db, a.principal_investigators,
                                            prj.lastrowid)
    IN  IF ~prj.ok THEN prj
        ELSE IF ~trm.ok THEN [ok |-> FALSE, db |-> trm.db, lastrowid |-> prj.lastrowid]
        ELSE [ok |-> inv.ok, db |-> inv.db, lastrowid |-> prj.lastrowid]

\* insert_award_file: the project row, then the child rows the options ask
\* for.  ok = FALSE: one of the INSERTs raised IntegrityError (the rows
\* written before it stay in the open transaction until it is rolled back).
insert_award_file(d, a, fid, is_insert_term, is_insert_pi) ==
    LET prj == insert_project(d, a, fid)
        trm == IF is_insert_term
               THEN insert_project_terms(prj.db, a.project_terms, prj.lastrowid)
               ELSE [ok |-> TRUE, db |-> prj.db]
        inv == IF is_insert_pi
               THEN insert_project_investigators(trm.db, a.principal_investigators,
                                                 prj.lastrowid)
               ELSE [ok |-> TRUE, db |-> trm.db]
    IN  IF ~prj.ok THEN prj
        ELSE IF ~trm.ok THEN [ok |-> FALSE, db |-> trm.db, lastrowid |-> prj.lastrowid]
        ELSE [ok |-> inv.ok, db |-> inv.db, lastrowid |-> prj.lastrowid]

\* Faulty variant: the connection runs in autocommit mode, every INSERT is durable.
KeepWorking(committed, working) == working

\* What the database file holds once the open transaction is abandoned, by
\* con.rollback() in the with block or by the death of the process: the
\* committed content (sqlite3 opens a transaction before the first INSERT).
Rollback(committed, working) == committed

\* ORDER BY source_file_fiscal_year DESC, source_file_date DESC: does file
\* row x sort strictly before file row y?  Both columns are TEXT.
SortsBefore(x, y) ==
    \/ TextLess(y.source_file_fiscal_year, x.source_file_fiscal_year)
    \/ /\ y.source_file_fiscal_year = x.source_file_fiscal_year
       /\ TextLess(y.source_file_date, x.source_file_date)

\* The row lists the SELECT of update_source_file_precedence may return: every
\* arrangement of the file ids that respects the ORDER BY (SQL leaves the order
\* of rows with equal keys open).
SelectOrdered(d) ==
    LET F == d.NIH_SOURCE_FILE
    IN  {s \in [Ids(F) -> Ids(F)] :
            /\ \A i, j \in Ids(F) : i # j => s[i] # s[j]
            /\ \A i, j \in Ids(F) : i < j => ~SortsBefore(F[s[j]], F[s[i]])}

\* The UPDATE loop of update_source_file_precedence over the row list rows:
\* i = 1, 2, ... in list order.
SetPrecedence(d, rows) ==
    LET F == d.NIH_SOURCE_FILE
    IN  [d EXCEPT !.NIH_SOURCE_FILE =
            [id \in Ids(F) |->
                [F[id] EXCEPT !.source_file_precedence_order =
                    CHOOSE i \in Ids(F) : rows[i] = id]]]

\* The precedence of the file a project row came from.
PrecedenceOf(d, p) ==
    d.NIH_SOURCE_FILE[d.NIH_PROJECT[p].nih_source_file_id].source_file_precedence_order

\* Least element of a non-empty set of integers.
Least(S) == CHOOSE x \in S : \A y \in S : x <= y

\* The subquery mfy: MIN(source_file_precedence_order) GROUP BY application_id
\* (MIN skips NULL, and is NULL when every value is).
MinPrecedence(d, app) ==
    LET S == {PrecedenceOf(d, p) : p \in {q \in Ids(d.NIH_PROJECT) :
                                           d.NIH_PROJECT[q].application_id = app}} \ {NULL}
    IN  IF S = {} THEN NULL ELSE Least(S)

\* Faulty variant: MAX instead of MIN in the subquery.
MaxPrecedence(d, app) ==
    LET S == {PrecedenceOf(d, p) : p \in {q \in Ids(d.NIH_PROJECT) :
                                           d.NIH_PROJECT[q].application_id = app}} \ {NULL}
    IN  IF S = {} THEN NULL ELSE CHOOSE x \in S : \A y \in S : y <= x

\* The precedence the UPDATE ... SET 'Y' picks within a group.
PickedPrecedence(d, app) == MinPrecedence(d, app)

\* Faulty variant: the flags of earlier recomputations are not reset.
KeepCurrent(d) == d

\* UPDATE NIH_PROJECT SET is_current_application_id = 'N'
ResetCurrent(d) ==
    [d EXCEPT !.NIH_PROJECT =
        [p \in Ids(d.NIH_PROJECT) |->
            [d.NIH_PROJECT[p] EXCEPT !.is_current_application_id = "N"]]]

\* update_current_application_id: every flag 'N', then 'Y' on the rows whose
\* file has the picked precedence of their application_id (a NULL never joins).
SetCurrent(d) ==
    LET n == ResetCurrent(d)
    IN  [n EXCEPT !.NIH_PROJECT =
            [p \in Ids(n.NIH_PROJECT) |->
                [n.NIH_PROJECT[p] EXCEPT !.is_current_application_id =
                    IF /\ PrecedenceOf(n, p) # NULL
                       /\ PrecedenceOf(n, p) =
                              PickedPrecedence(n, n.NIH_PROJECT[p].application_id)
                    THEN "Y" ELSE @]]]

\* ------------------------------------------------------------ input ---
\* The calendar dates and fiscal years of the catalog rows.
Dates ==
    {[m |-> 12, d |-> 31, y |-> 2011], [m |-> 6, d |-> 1, y |-> 2012],
     [m |-> 9, d |-> 1, y |-> 2012]}

FiscalYears == {2011, 2012}

\* application_id of the j-th row of a file.
AppId(j) ==
    CASE j = 1 -> "1001" [] j = 2 -> "1002" [] j = 3 -> "1003" [] OTHER -> "1004"

RowElem(app) == Elem("row", Ws, Leaf("APPLICATION_ID", app))

RowElems(n) == Cat([j \in 1..n |-> RowElem(AppId(j))])

\* A pretty-printed export with n rows.
WellFormedDoc(n) == Elem("PROJECTS", Ws, RowElems(n))

\* An export without rows written as <PROJECTS/>.
EmptyCompactDoc == Elem("PROJECTS", None, <<>>)

\* An export cut inside its n-th row.
TruncatedDoc(n) == <<StartEv("PROJECTS")>> \o RowElems(n - 1) \o <<StartEv("row"), Malformed>>

\* An export whose n-th row repeats the application_id of its first row.
DuplicateDoc(n) == Elem("PROJECTS", Ws, RowElems(n - 1) \o RowElem(AppId(1)))

Docs ==
    {WellFormedDoc(n) : n \in 0..MaxRows} \cup {EmptyCompactDoc}
        \cup {TruncatedDoc(n) : n \in 1..MaxRows} \cup {DuplicateDoc(n) : n \in 2..MaxRows}

\* Name of the xml file of the i-th catalog row.
FileName(i) ==
    CASE i = 1 -> "FY_001.xml" [] i = 2 -> "FY_002.xml" [] i = 3 -> "FY_003.xml"
      [] OTHER -> "FY_004.xml"

\* The list get_files_in_fiscal_year_range builds: one descriptor per catalog
\* row in the range, with the xml file it unpacked (doc is the file's content).
Descriptors(n, stamps, docs) ==
    {[i \in 1..n |->
         [xml_file |-> FileName(i), fiscal_year |-> FormatYear(st[i][1]),
          file_date |-> FormatDate(st[i][2]), doc |-> dc[i]]] :
       st \in [1..n -> stamps], dc \in [1..n -> docs]}

\* Batches of exports of every content, all posted for FY2012 on one day.
Batches ==
    UNION {Descriptors(n, {<<2012, [m |-> 6, d |-> 1, y |-> 2012]>>}, Docs) :
           n \in 0..MaxFiles}

\* Batches of one-row exports of every fiscal year and date.
DatedBatches ==
    UNION {Descriptors(n, FiscalYears \X Dates, {WellFormedDoc(1)}) : n \in 1..MaxFiles}

\* A PI element: its own text (None when the first child follows the tag
\* directly, whitespace when the export is indented) and the texts of its
\* PI_NAME and PI_ID children.
PIKinds == [own : {None, Ws}, name : BOOLEAN, id : BOOLEAN]

PINameText(j) == CASE j = 1 -> "DOE, J" [] j = 2 -> "ROE, R" [] OTHER -> "POE, P"

PIIdText(j) == CASE j = 1 -> "7001" [] j = 2 -> "7002" [] OTHER -> "7003"

\* The j-th PI element of a row, of kind k.
PIElem(k, j) ==
    Elem("PI", k.own,
         Leaf("PI_NAME", IF k.name THEN PINameText(j) ELSE None)
             \o Leaf("PI_ID", IF k.id THEN PIIdText(j) ELSE None))

\* An export of one row with the PI elements of kinds ks.
InvestigatorDoc(ks) ==
    Elem("PROJECTS", Ws,
         Elem("row", Ws,
              Leaf("APPLICATION_ID", AppId(1))
                  \o Elem("PIS", Ws, Cat([j \in 1..Len(ks) |-> PIElem(ks[j], j)]))))

\* An export of two rows: one full PI element in the first row, the PI
\* elements of kinds ks in the second.
InvestigatorAfterRowDoc(ks) ==
    Elem("PROJECTS", Ws,
         Elem("row", Ws,
              Leaf("APPLICATION_ID", AppId(1))
                  \o Elem("PIS", Ws, PIElem([own |-> Ws, name |-> TRUE, id |-> TRUE], 3)))
             \o Elem("row", Ws,
                     Leaf("APPLICATION_ID", AppId(2))
                         \o Elem("PIS", Ws, Cat([j \in 1..Len(ks) |-> PIElem(ks[j], j)]))))

InvestigatorDocs ==
    UNION {{InvestigatorDoc(ks) : ks \in [1..n -> PIKinds]} : n \in 0..MaxGroups}
        \cup UNION {{InvestigatorAfterRowDoc(ks) : ks \in [1..n -> PIKinds]} :
                       n \in 1..MaxGroups}

\* Batches of one export with investigator groups.
InvestigatorBatches ==
    Descriptors(1, {<<2012, [m |-> 6, d |-> 1, y |-> 2012]>>}, InvestigatorDocs)

\* The TERM texts of the exports (None: a TERM element without text).
TermTexts == {"cancer", "brain"}

\* Sequences of at most MaxGroups values.
UpTo(vals) == UNION {[1..n -> vals] : n \in 0..MaxGroups}

\* The PROJECT_TERMSX element with one TERM element per text of ts.
TermsElem(ts) ==
    Elem("PROJECT_TERMSX", Ws, Cat([j \in 1..Len(ts) |-> Leaf("TERM", ts[j])]))

\* The PIS element of an indented export with one PI element per entry of
\* pis; the entry j gives PI_NAME and PI_ID their j-th texts.
PisElem(pis) ==
    Elem("PIS", Ws,
         Cat([j \in 1..Len(pis) |->
                 PIElem([own |-> Ws, name |-> TRUE, id |-> TRUE], pis[j])]))

\* A row with terms and investigators.
ChildRowElem(app, ts, pis) ==
    Elem("row", Ws, Leaf("APPLICATION_ID", app) \o TermsElem(ts) \o PisElem(pis))

\* An export of two rows with the terms ts1 and ts2.
TermDoc(ts1, ts2) ==
    Elem("PROJECTS", Ws,
         ChildRowElem(AppId(1), ts1, <<>>) \o ChildRowElem(AppId(2), ts2, <<>>))

TermDocs == {TermDoc(ts1, ts2) : ts1, ts2 \in UpTo(TermTexts \cup {None})}

\* Batches of one export with terms.
TermBatches == Descriptors(1, {<<2012, [m |-> 6, d |-> 1, y |-> 2012]>>}, TermDocs)

\* An export of n rows whose r-th row has the terms ts and the investigators pis.
ChildDoc(n, r, ts, pis) ==
    Elem("PROJECTS", Ws,
         Cat([j \in 1..n |->
                 IF j = r THEN ChildRowElem(AppId(j), ts, pis) ELSE RowElem(AppId(j))]))

ChildDocs ==
    {ChildDoc(n, r, ts, <<>>) : n \in 1..MaxRows, r \in 1..MaxRows, ts \in UpTo(TermTexts)}
        \cup {ChildDoc(n, r, <<>>, pis) :
                 n \in 1..MaxRows, r \in 1..MaxRows, pis \in UpTo(1..2)}
        \cup {ChildDoc(n, 1, <<"cancer">>, <<1>>) : n \in 1..MaxRows}

\* Batches of one export with child groups.
ChildBatches == Descriptors(1, {<<2012, [m |-> 6, d |-> 1, y |-> 2012]>>}, ChildDocs)

\* What a caller may pass as a fiscal year: years, a year the pattern does
\* not take, two digits, a year between whitespace.
YearTexts ==
    {FourDigits(2011), FourDigits(2012), FourDigits(1850), TwoDigits(12),
     <<32>> \o FourDigits(2012) \o <<10>>}

\* The ranges of the calls of one caller.
Ranges ==
    {<<FourDigits(2011), FourDigits(2011)>>, <<FourDigits(2012), FourDigits(2012)>>,
     <<FourDigits(2011), FourDigits(2012)>>}

\* Catalogs of two one-row exports of every fiscal year.
CatalogBatches ==
    Descriptors(2, FiscalYears \X {[m |-> 6, d |-> 1, y |-> 2012]}, {WellFormedDoc(1)})

\* ------------------------------------------------------------ state ---
VARIABLES
    fiscal_year_start,      \* the arguments of load_fiscal_year_range
    fiscal_year_end,
    is_store_terms,
    is_store_investigators,
    tables,                 \* the tables of the database file
    batch,                  \* the exports the catalog page lists
    xml_files,              \* NIHAwardFile.xml_files
    disk,                   \* committed content of the database file
    db,                     \* content seen through con (disk plus the open transaction)
    pc,                     \* "idle", "loop", "prec", "cur", "done", "failed", "crashed",
                            \* "rejected"; of a bare iteration: "iter", "exhausted",
                            \* "raised", "stopped"
    gen,                    \* the generator award_file.awarditer()
    award,                  \* the loop variable award of load_fiscal_year_range
    is_source_file_loaded,
    cur_file_id,
    exc,                    \* the exception that ended the run ("none" while there is none)
    out,                    \* the error reports printed, one record per print
    runs,                   \* calls of load_fiscal_year_range so far
    calls,                  \* registry recomputations called in this run, in call order
    okRuns,                 \* successful runs in a row, ending with the last run
    records,                \* the records a bare "for award in awarditer()" has received
    intr                    \* position in the batch of the file whose rows were pending
                            \* when the last run was interrupted (0: none were)

params == <<fiscal_year_start, fiscal_year_end, is_store_terms, is_store_investigators>>

vars == <<params, tables, batch, xml_files, disk, db, pc, gen, award,
          is_source_file_loaded, cur_file_id, exc, out, runs, calls, okRuns, records, intr>>

\* The call load_fiscal_year_range('2011', '2012', database_file_name).
Defaults ==
    /\ fiscal_year_start = FourDigits(2011)
    /\ fiscal_year_end = FourDigits(2012)
    /\ is_store_terms = FALSE
    /\ is_store_investigators = FALSE

\* The state before the first run, on a new database file.
Fresh ==
    /\ tables = {}
    /\ xml_files = <<>>
    /\ disk = EmptyDb
    /\ db = EmptyDb
    /\ pc = "idle"
    /\ gen = NewGen
    /\ award = Unbound
    /\ is_source_file_loaded = FALSE
    /\ cur_file_id = 0
    /\ exc = "none"
    /\ out = <<>>
    /\ runs = 0
    /\ calls = <<>>
    /\ okRuns = 0
    /\ records = <<>>
    /\ intr = 0

Init == batch \in Batches /\ Defaults /\ Fresh

InitDated == batch \in DatedBatches /\ Defaults /\ Fresh

\* Runs that store the child groups the caller asks for.
InitChildren ==
    /\ batch \in ChildBatches
    /\ fiscal_year_start = FourDigits(2012)
    /\ fiscal_year_end = FourDigits(2012)
    /\ is_store_terms \in BOOLEAN
    /\ is_store_investigators \in BOOLEAN
    /\ Fresh

\* Runs with every fiscal-year range a caller may pass.
InitRanges ==
    /\ batch \in CatalogBatches
    /\ fiscal_year_start \in YearTexts
    /\ fiscal_year_end \in YearTexts \cup {NoYear}
    /\ is_store_terms = FALSE
    /\ is_store_investigators = FALSE
    /\ Fresh

\* Position in xml_files of the file a record came from.
FileIndex(a) == CHOOSE i \in 1..Len(xml_files) : xml_files[i].xml_file = a.source_file_name

\* Position of the file that owns the rows of the open transaction (0: no such rows).
PendingFile(working, committed, a) ==
    IF Len(working.NIH_PROJECT) > Len(committed.NIH_PROJECT) THEN FileIndex(a) ELSE 0

\* print("ERROR: Failed to load NIH source file", award.source_file_name, award.source_file_date)
ErrorReport(a) ==
    [source_file_name |-> a.source_file_name, source_file_date |-> a.source_file_date]

\* Faulty variant: every record takes the row-0 branch.
EveryRecordNewFile(a) == TRUE

\* Is the record the first of its file?  (award.source_file_row_number == 0)
IsNewFile(a) == a.source_file_row_number = 0

\* load_fiscal_year_range up to the for loop: create_nih_tables, then
\* NIHAwardFile(...) (RuntimeError for a range it does not take), then the
\* files of the range are acquired (or the list already held is kept;
\* RuntimeError when the catalog has no file in the range), then con is opened.
EnterRun(start, end) ==
    /\ runs' = runs + 1
    /\ fiscal_year_start' = start
    /\ fiscal_year_end' = end
    /\ tables' = tables \cup CreatedTables(is_store_terms, is_store_investigators)
    /\ LET award_file == NIHAwardFile(start, end)
       IN  xml_files' = IF award_file.ok /\ Len(xml_files) = 0
                        THEN find_zip_file_urls(batch, award_file)
                        ELSE xml_files
    /\ db' = disk
    /\ gen' = NewGen
    /\ award' = Unbound
    /\ is_source_file_loaded' = FALSE
    /\ cur_file_id' = 0
    /\ calls' = <<>>
    /\ out' = <<>>
    /\ intr' = IF pc = "done" THEN 0 ELSE intr
    /\ IF ~NIHAwardFile(start, end).ok
       THEN pc' = "rejected" /\ exc' = "RuntimeError" /\ okRuns' = 0
       ELSE IF Len(xml_files') = 0
       THEN pc' = "failed" /\ exc' = "RuntimeError" /\ okRuns' = 0
       ELSE pc' = "loop" /\ exc' = "none" /\ okRuns' = okRuns
    /\ UNCHANGED <<is_store_terms, is_store_investigators, records, batch, disk>>

\* A call of load_fiscal_year_range with the arguments of the call before.
StartRun ==
    /\ pc \in {"idle", "done", "failed", "crashed", "rejected"}
    /\ runs < MaxRuns
    /\ EnterRun(fiscal_year_start, fiscal_year_end)

\* A call of load_fiscal_year_range, in the same process or a new one, with
\* any of the ranges.
CallWithRange ==
    /\ pc \in {"idle", "done", "failed", "crashed", "rejected"}
    /\ runs < MaxRuns
    /\ \E range \in Ranges : EnterRun(range[1], range[2])

\* One iteration of the for loop on the record the generator g has yielded.
\* fault: sqlite raises OperationalError in insert_project (disk full, locked).
Iterate(g, fault) ==
    LET a      == g.award
        new    == IsNewFile(a)
        reg    == insert_source_file(db, a.source_file_name, a.source_file_date,
                                     a.source_fiscal_year)
        \* the two con.commit() of the row-0 branch
        disk1  == IF new THEN (IF reg.ok THEN reg.db ELSE db) ELSE disk
        db1    == IF new /\ reg.ok THEN reg.db ELSE db
        fid    == IF ~new THEN cur_file_id
                  ELSE IF reg.ok THEN reg.lastrowid
                  ELSE SelectSourceFileId(db, a.source_file_name, a.source_file_date)
        loaded == IF ~new THEN is_source_file_loaded
                  ELSE IF reg.ok THEN FALSE
                  ELSE IsLoaded(db, fid)
        ins    == insert_award_file(db1, a, fid, is_store_terms, is_store_investigators)
    IN  /\ fault => ~loaded
        /\ gen' = g
        /\ award' = a
        /\ is_source_file_loaded' = loaded
        /\ cur_file_id' = fid
        /\ IF ~loaded /\ (fault \/ ~ins.ok)
           THEN /\ disk' = Rollback(disk1, db1)
                /\ db' = disk'
                /\ pc' = "failed"
                /\ exc' = IF fault THEN "OperationalError" ELSE "IntegrityError"
                /\ out' = Append(out, ErrorReport(a))
                /\ okRuns' = 0
                /\ intr' = PendingFile(db1, disk1, a)
           ELSE /\ disk' = disk1
                /\ db' = IF loaded THEN db1 ELSE ins.db
                /\ UNCHANGED <<pc, exc, out, okRuns, intr>>
        /\ UNCHANGED <<params, tables, records, batch, xml_files, runs, calls>>

\* Faulty variant: update_source_file_precedence is not called after the loop.
ExhaustedSkippingPrecedence(g) ==
    /\ gen' = g
    /\ disk' = db
    /\ pc' = "cur"
    /\ UNCHANGED <<params, tables, records, batch, xml_files, db, award,
                   is_source_file_loaded, cur_file_id,
                   exc, out, runs, calls, okRuns, intr>>

\* The generator is exhausted: the with block commits, "Imported all files."
Exhausted(g) ==
    /\ gen' = g
    /\ disk' = db
    /\ pc' = "prec"
    /\ UNCHANGED <<params, tables, records, batch, xml_files, db, award,
                   is_source_file_loaded, cur_file_id,
                   exc, out, runs, calls, okRuns, intr>>

\* The generator raised: the with block rolls back, the except clause prints
\* the file of award (UnboundLocalError when no record was yielded yet) and
\* re-raises.
GeneratorRaised(g) ==
    /\ gen' = g
    /\ disk' = Rollback(disk, db)
    /\ db' = disk'
    /\ pc' = "failed"
    /\ IF award = Unbound
       THEN exc' = "UnboundLocalError" /\ out' = out /\ intr' = 0
       ELSE /\ exc' = g.exc
            /\ out' = Append(out, ErrorReport(award))
            /\ intr' = PendingFile(db, disk, award)
    /\ okRuns' = 0
    /\ UNCHANGED <<params, tables, records, batch, xml_files, award, is_source_file_loaded,
                   cur_file_id,
                   runs, calls>>

\* One pass of "for award in award_file.awarditer():", or the end of the loop.
LoopStep ==
    /\ pc = "loop"
    /\ LET g == Resume(gen, xml_files)
       IN  \/ g.st = "yielded" /\ \E fault \in BOOLEAN : Iterate(g, fault)
           \/ g.st = "finished" /\ Exhausted(g)
           \/ g.st = "raised" /\ GeneratorRaised(g)

\* update_source_file_precedence(database_file_name)
UpdatePrecedence ==
    /\ pc = "prec"
    /\ \E rows \in SelectOrdered(disk) :
          /\ disk' = SetPrecedence(disk, rows)
          /\ db' = disk'
    /\ calls' = Append(calls, "precedence")
    /\ pc' = "cur"
    /\ UNCHANGED <<params, tables, records, batch, xml_files, gen, award,
                   is_source_file_loaded, cur_file_id,
                   exc, out, runs, okRuns, intr>>

\* update_current_application_id(database_file_name), and the return.
UpdateCurrent ==
    /\ pc = "cur"
    /\ disk' = SetCurrent(disk)
    /\ db' = disk'
    /\ calls' = Append(calls, "current")
    /\ pc' = "done"
    /\ okRuns' = okRuns + 1
    /\ UNCHANGED <<params, tables, records, batch, xml_files, gen, award,
                   is_source_file_loaded, cur_file_id,
                   exc, out, runs, intr>>

\* The process dies between two steps of a run: the open transaction is lost.
Crash ==
    /\ pc \in {"loop", "prec", "cur"}
    /\ disk' = Rollback(disk, db)
    /\ db' = disk'
    /\ pc' = "crashed"
    /\ xml_files' = <<>>
    /\ okRuns' = 0
    /\ intr' = IF pc = "loop" /\ award # Unbound THEN PendingFile(db, disk, award) ELSE 0
    /\ UNCHANGED <<params, tables, records, batch, gen, award, is_source_file_loaded,
                   cur_file_id, exc, out,
                   runs, calls>>

\* The process dies inside the row-0 branch, after the first con.commit() and
\* before the file is registered: the previous file's rows are committed.
CrashAtNewFile ==
    /\ pc = "loop"
    /\ LET g == Resume(gen, xml_files)
       IN  /\ g.st = "yielded"
           /\ IsNewFile(g.award)
           /\ gen' = g
           /\ award' = g.award
    /\ disk' = db
    /\ db' = db
    /\ pc' = "crashed"
    /\ xml_files' = <<>>
    /\ okRuns' = 0
    /\ intr' = 0
    /\ UNCHANGED <<params, tables, records, batch, is_source_file_loaded, cur_file_id, exc,
                   out, runs, calls>>

Next ==
    \/ StartRun
    \/ LoopStep
    \/ UpdatePrecedence
    \/ UpdateCurrent
    \/ Crash
    \/ CrashAtNewFile

Spec == Init /\ [][Next]_vars

\* The same program over the dated batches.
SpecDated == InitDated /\ [][Next]_vars

\* The same program storing child groups.
SpecChildren == InitChildren /\ [][Next]_vars

\* The same program over the fiscal-year ranges.
SpecRanges == InitRanges /\ [][Next]_vars

\* Calls with changing ranges on one database file.
InitInstances == batch \in CatalogBatches /\ Defaults /\ Fresh

NextInstances ==
    \/ CallWithRange
    \/ LoopStep
    \/ UpdatePrecedence
    \/ UpdateCurrent
    \/ Crash
    \/ CrashAtNewFile

SpecInstances == InitInstances /\ [][NextInstances]_vars

\* The extractor alone: the files are acquired, a bare loop pulls the records.
InitExtract ==
    /\ batch \in InvestigatorBatches \cup TermBatches \cup Batches
    /\ Defaults
    /\ tables = {}
    /\ xml_files = batch
    /\ disk = EmptyDb
    /\ db = EmptyDb
    /\ pc = "iter"
    /\ gen = NewGen
    /\ award = Unbound
    /\ is_source_file_loaded = FALSE
    /\ cur_file_id = 0
    /\ exc = "none"
    /\ out = <<>>
    /\ runs = 0
    /\ calls = <<>>
    /\ okRuns = 0
    /\ records = <<>>
    /\ intr = 0

\* next() on award_file.awarditer(): a record, StopIteration or an exception.
NextAward ==
    /\ pc \in {"iter", "raised"}
    /\ LET g == Resume(gen, xml_files)
       IN  /\ gen' = g
           /\ \/ /\ g.st = "yielded"
                 /\ award' = g.award
                 /\ records' = Append(records, g.award)
                 /\ UNCHANGED <<pc, exc>>
              \/ /\ g.st = "finished"
                 /\ pc' = IF pc = "raised" THEN "stopped" ELSE "exhausted"
                 /\ UNCHANGED <<award, records, exc>>
              \/ /\ g.st = "raised"
                 /\ pc' = "raised"
                 /\ exc' = g.exc
                 /\ UNCHANGED <<award, records>>
    /\ UNCHANGED <<params, tables, batch, xml_files, disk, db, is_source_file_loaded,
                   cur_file_id, out,
                   runs, calls, okRuns, intr>>

NextExtract == NextAward

SpecExtract == InitExtract /\ [][NextExtract]_vars

\* ----------------------------------------------------------- claims ---
\* The (application_id, file, row number) triples of the project rows of d.
ProjectKeys(d) ==
    {[application_id |-> d.NIH_PROJECT[p].application_id,
      nih_source_file_id |-> d.NIH_PROJECT[p].nih_source_file_id,
      source_file_row_number |-> d.NIH_PROJECT[p].source_file_row_number] :
        p \in Ids(d.NIH_PROJECT)}

\* The project rows of d with this application_id.
RowsOfApp(d, app) == {p \in Ids(d.NIH_PROJECT) : d.NIH_PROJECT[p].application_id = app}

AppsOf(d) == {d.NIH_PROJECT[p].application_id : p \in Ids(d.NIH_PROJECT)}

\* The export of the batch a registered file row stands for.
ExportOf(d, id) ==
    batch[CHOOSE i \in 1..Len(batch) :
              batch[i].xml_file = d.NIH_SOURCE_FILE[id].source_file_name]

\* Row elements opened in a document.
RowStarts(doc) == Cardinality({i \in 1..Len(doc) : doc[i].ev = "start" /\ doc[i].tag = "row"})

\* File id holds the project row of every row of its export, and nothing else.
FullyLoaded(d, id) ==
    LET recs == Drain(NewGen, <<ExportOf(d, id)>>)
    IN  /\ Len(recs) = RowStarts(ExportOf(d, id).doc)
        /\ CountProjects(d, id) = Len(recs)
        /\ {k \in ProjectKeys(d) : k.nih_source_file_id = id} =
               {[application_id |-> recs[j].application_id, nih_source_file_id |-> id,
                 source_file_row_number |-> recs[j].source_file_row_number] :
                   j \in 1..Len(recs)}

\* C1: in a run that directly follows a successful run over the same batch no
\* project row is inserted: the project rows of every file stay what they were,
\* in the connection and in the committed database.
C1_SecondRunInsertsNothing ==
    [][okRuns >= 1 =>
          /\ ProjectKeys(db') = ProjectKeys(db)
          /\ ProjectKeys(disk') = ProjectKeys(disk)]_vars

\* C1 witness: the second of two successful runs has skipped a whole two-row file.
C1_Witness ==
    /\ okRuns = 2
    /\ \E id \in Ids(disk.NIH_SOURCE_FILE) : CountProjects(disk, id) = 2

\* C2: after the two recomputations every application_id has exactly one row
\* flagged 'Y', all its other rows are 'N', and the flagged row comes from the
\* file with the smallest precedence among the files that hold the id.
C2_OneCurrentFromBestFile ==
    pc = "done" =>
        \A app \in AppsOf(disk) :
            \E p \in RowsOfApp(disk, app) :
                /\ disk.NIH_PROJECT[p].is_current_application_id = "Y"
                /\ \A q \in RowsOfApp(disk, app) :
                      /\ q # p => disk.NIH_PROJECT[q].is_current_application_id = "N"
                      /\ q # p => PrecedenceOf(disk, p) < PrecedenceOf(disk, q)

\* C2 witness: a finished run with an application_id held by two files.
C2_Witness ==
    /\ pc = "done"
    /\ \E app \in AppsOf(disk) : Cardinality(RowsOfApp(disk, app)) >= 2

\* C3 (as claimed): after a finished run, of two registered files the one of the
\* later fiscal year has the smaller precedence, and within one fiscal year the
\* one with the later calendar date has the smaller precedence.
C3_PrecedenceFollowsCalendar ==
    pc = "done" =>
        \A i, j \in Ids(disk.NIH_SOURCE_FILE) :
            LET x == disk.NIH_SOURCE_FILE[i]
                y == disk.NIH_SOURCE_FILE[j]
                later ==
                    \/ ParseYear(x.source_file_fiscal_year) > ParseYear(y.source_file_fiscal_year)
                    \/ /\ x.source_file_fiscal_year = y.source_file_fiscal_year
                       /\ DateBefore(ParseDate(y.source_file_date), ParseDate(x.source_file_date))
            IN  later => x.source_file_precedence_order < y.source_file_precedence_order

\* C4: after a run was interrupted with rows of file k pending, file k has no
\* committed row; in the next run every record of a file before k is skipped,
\* every record of file k is loaded from its row 0, and when that run succeeds
\* file k is held in full.
C4_ResumeReloadsInterruptedFile ==
    intr > 0 =>
        /\ pc \in {"failed", "crashed"} =>
              \A id \in Ids(disk.NIH_SOURCE_FILE) :
                  ExportOf(disk, id) = batch[intr] => CountProjects(disk, id) = 0
        /\ pc = "loop" /\ award # Unbound =>
              /\ FileIndex(award) < intr => is_source_file_loaded
              /\ FileIndex(award) = intr =>
                    /\ ~is_source_file_loaded
                    /\ CountProjects(db, cur_file_id) = award.source_file_row_number + 1
        /\ pc = "done" =>
              \E id \in Ids(disk.NIH_SOURCE_FILE) :
                  ExportOf(disk, id) = batch[intr] /\ FullyLoaded(disk, id)

\* C4 witness: the run after an interruption in the second file has skipped the
\* first file and is loading the second file again.
C4_Witness ==
    /\ intr = 2
    /\ pc = "loop"
    /\ award # Unbound
    /\ FileIndex(award) = 2
    /\ award.source_file_row_number = 1
    /\ ~is_source_file_loaded

\* C5: in the committed database every registered file has no project row or
\* the project rows of all the rows of its export.
C5_NoPartialFile ==
    \A id \in Ids(disk.NIH_SOURCE_FILE) :
        CountProjects(disk, id) = 0 \/ FullyLoaded(disk, id)

\* C5 witness: a run stopped with rows pending; the file is registered without
\* rows next to a file held in full.
C5_Witness ==
    /\ pc \in {"failed", "crashed"}
    /\ intr > 0
    /\ \E id \in Ids(disk.NIH_SOURCE_FILE) : CountProjects(disk, id) = 0
    /\ \E id \in Ids(disk.NIH_SOURCE_FILE) : CountProjects(disk, id) = 2

\* C6 (as claimed): when insert_award_file fails, the report printed names the
\* file of the record (name and date) and the row number of the record.
C6_ReportNamesFileAndRow ==
    pc = "failed" /\ exc \in {"OperationalError", "IntegrityError"} =>
        /\ out # <<>>
        /\ out[Len(out)].source_file_name = award.source_file_name
        /\ out[Len(out)].source_file_date = award.source_file_date
        /\ "source_file_row_number" \in DOMAIN out[Len(out)]

\* No two rows of NIH_SOURCE_FILE share (source_file_name, source_file_date).
UniqueSourceFiles(d) ==
    \A i, j \in Ids(d.NIH_SOURCE_FILE) :
        /\ d.NIH_SOURCE_FILE[i].source_file_name = d.NIH_SOURCE_FILE[j].source_file_name
        /\ d.NIH_SOURCE_FILE[i].source_file_date = d.NIH_SOURCE_FILE[j].source_file_date
        => i = j

\* The step is a pass of the loop body on a first record (row 0).
NewFileStep ==
    /\ pc = "loop"
    /\ gen' # gen
    /\ gen'.st = "yielded"
    /\ pc' # "crashed"
    /\ IsNewFile(award')

\* C7: NIH_SOURCE_FILE never holds two rows with one (name, date); the current
\* file id is the row of the record's (name, date); and a first record of a file
\* that is registered already makes its row the current file id and does not
\* end the run (an injected failure of the following insert apart).
C7_RegistrationIsUpsert ==
    /\ [](UniqueSourceFiles(db) /\ UniqueSourceFiles(disk))
    /\ [](pc = "loop" /\ award # Unbound =>
            /\ cur_file_id \in Ids(db.NIH_SOURCE_FILE)
            /\ db.NIH_SOURCE_FILE[cur_file_id].source_file_name = award.source_file_name
            /\ db.NIH_SOURCE_FILE[cur_file_id].source_file_date = award.source_file_date)
    /\ [][NewFileStep
            /\ SourceFileKeyTaken(db, award'.source_file_name, award'.source_file_date)
          => /\ cur_file_id' \in Ids(db.NIH_SOURCE_FILE)
             /\ db.NIH_SOURCE_FILE[cur_file_id'].source_file_name = award'.source_file_name
             /\ db.NIH_SOURCE_FILE[cur_file_id'].source_file_date = award'.source_file_date
             /\ Len(db'.NIH_SOURCE_FILE) = Len(db.NIH_SOURCE_FILE)
             /\ exc' # "IntegrityError"
             /\ (exc' = "none" => pc' = "loop")]_vars

\* C7 witness: the first record of the second file, registered by an earlier
\* run, has been observed and the run goes on with file id 2.
C7_Witness ==
    /\ runs >= 2
    /\ pc = "loop"
    /\ award # Unbound
    /\ FileIndex(award) = 2
    /\ IsNewFile(award)
    /\ cur_file_id = 2
    /\ Len(db.NIH_SOURCE_FILE) = 2

\* C8: at a first record the coordinator skips the file exactly when the file
\* was registered before and has a project row; a registered file without rows
\* is loaded.
C8_SkipIffRegisteredWithRows ==
    [][NewFileStep =>
          (is_source_file_loaded' <=>
              \E id \in Ids(db.NIH_SOURCE_FILE) :
                  /\ db.NIH_SOURCE_FILE[id].source_file_name = award'.source_file_name
                  /\ db.NIH_SOURCE_FILE[id].source_file_date = award'.source_file_date
                  /\ \E p \in Ids(db.NIH_PROJECT) : db.NIH_PROJECT[p].nih_source_file_id = id)]_vars

\* C8 witness: a file left registered without rows by an interrupted run is
\* being loaded again, after an earlier file of the same run was skipped.
C8_Witness ==
    /\ pc = "loop"
    /\ award # Unbound
    /\ IsNewFile(award)
    /\ intr = 2
    /\ FileIndex(award) = 2
    /\ ~is_source_file_loaded
    /\ CountProjects(disk, 1) > 0

\* C9: the recomputations are called only after the generator is exhausted,
\* precedence first and current flags second, each once per finished run.
C9_RecomputeOnceAtEnd ==
    /\ pc = "loop" => calls = <<>>
    /\ calls # <<>> => gen.st = "finished"
    /\ pc = "prec" => calls = <<>>
    /\ pc = "cur" => calls = <<"precedence">>
    /\ pc = "done" => calls = <<"precedence", "current">>
    /\ Len(calls) <= 2

\* C9 witness: a finished run over two files.
C9_Witness ==
    /\ pc = "done"
    /\ Len(disk.NIH_SOURCE_FILE) = 2
    /\ calls = <<"precedence", "current">>

\* Position in doc of the n-th event of kind ev with tag "row".
RECURSIVE NthRowEvent(_, _, _, _)
NthRowEvent(doc, ev, n, from) ==
    IF doc[from].ev = ev /\ doc[from].tag = "row"
    THEN IF n = 1 THEN from ELSE NthRowEvent(doc, ev, n - 1, from + 1)
    ELSE NthRowEvent(doc, ev, n, from + 1)

\* The events of the n-th row element of doc, from its start to its end.
RowEvents(doc, n) ==
    SubSeq(doc, NthRowEvent(doc, "start", n, 1), NthRowEvent(doc, "end", n, 1))

\* The investigators C10 asks for: reading the events of a row in order, every
\* PI element closed after PI_NAME or PI_ID text was seen inside it gives one
\* entry with the texts seen inside it.
RECURSIVE ClaimedInvestigators(_, _, _, _)
ClaimedInvestigators(evs, name, id, acc) ==
    IF evs = <<>> THEN acc
    ELSE LET e == Head(evs)
         IN  IF e.ev = "start" /\ e.tag = "PI"
             THEN ClaimedInvestigators(Tail(evs), "", "", acc)
             ELSE IF e.ev = "end" /\ e.tag = "PI_NAME" /\ e.text # None
             THEN ClaimedInvestigators(Tail(evs), e.text, id, acc)
             ELSE IF e.ev = "end" /\ e.tag = "PI_ID" /\ e.text # None
             THEN ClaimedInvestigators(Tail(evs), name, e.text, acc)
             ELSE IF e.ev = "end" /\ e.tag = "PI" /\ (name # "" \/ id # "")
             THEN ClaimedInvestigators(Tail(evs), name, id,
                                       Append(acc, [pi_name |-> name, pi_id |-> id]))
             ELSE ClaimedInvestigators(Tail(evs), name, id, acc)

\* C10 (as claimed): every record holds one investigator entry per PI element
\* in which PI_NAME or PI_ID text was set, in source order, whatever the text
\* of the PI element itself.
C10_OneEntryPerInvestigatorGroup ==
    \A r \in 1..Len(records) :
        records[r].principal_investigators =
            ClaimedInvestigators(
                RowEvents(xml_files[FileIndex(records[r])].doc,
                          records[r].source_file_row_number + 1), "", "", <<>>)

\* C10, where the code meets it: the entries are as claimed in every row whose
\* PI elements all have text of their own.
C10_IndentedGroups ==
    \A r \in 1..Len(records) :
        LET evs == RowEvents(xml_files[FileIndex(records[r])].doc,
                             records[r].source_file_row_number + 1)
        IN  (\A i \in 1..Len(evs) :
                 evs[i].ev = "end" /\ evs[i].tag = "PI" => evs[i].text # None)
            => records[r].principal_investigators = ClaimedInvestigators(evs, "", "", <<>>)

\* The terms stored under project row pid, in insertion order.
TermsUnder(d, pid) ==
    LET rows == SelectSeq(d.NIH_PROJECT_TERM, LAMBDA r : r.nih_project_id = pid)
    IN  [i \in 1..Len(rows) |-> rows[i].term]

\* The investigators stored under project row pid, in insertion order.
InvestigatorsUnder(d, pid) ==
    LET rows == SelectSeq(d.NIH_PROJECT_INVESTIGATOR, LAMBDA r : r.nih_project_id = pid)
    IN  [i \in 1..Len(rows) |-> [pi_name |-> rows[i].pi_name, pi_id |-> rows[i].pi_id]]

\* The step is a pass of the loop body that persists the record it received
\* (the file is not skipped, sqlite reports no operational failure).
PersistStep ==
    /\ pc = "loop"
    /\ gen' # gen
    /\ gen'.st = "yielded"
    /\ pc' # "crashed"
    /\ ~is_source_file_loaded'
    /\ exc' # "OperationalError"

\* C11 (as claimed): persisting any record the extractor yields writes its
\* project row and, with the option on, one child row per element of its
\* terms and one per element of its investigators, in order, and the run
\* stays in the loop for the next record.
C11_ChildRowPerElement ==
    [][PersistStep =>
          /\ pc' = "loop"
          /\ Len(db'.NIH_PROJECT) = Len(db.NIH_PROJECT) + 1
          /\ is_store_terms =>
                TermsUnder(db', Len(db'.NIH_PROJECT)) = award'.project_terms
          /\ is_store_investigators =>
                InvestigatorsUnder(db', Len(db'.NIH_PROJECT)) =
                    award'.principal_investigators]_vars

\* Does the sequence hold a value twice?
Repeats(seq) == \E i, j \in 1..Len(seq) : i < j /\ seq[i] = seq[j]

\* C11, where the code meets it: the child rows are written as claimed for
\* every record whose terms are pairwise different and whose investigators
\* have pairwise different pi_id.
C11_DistinctChildren ==
    [][PersistStep
          /\ ~Repeats(award'.project_terms)
          /\ ~Repeats([i \in 1..Len(award'.principal_investigators) |->
                          award'.principal_investigators[i].pi_id])
       => /\ pc' = "loop"
          /\ Len(db'.NIH_PROJECT) = Len(db.NIH_PROJECT) + 1
          /\ is_store_terms =>
                TermsUnder(db', Len(db'.NIH_PROJECT)) = award'.project_terms
          /\ is_store_investigators =>
                InvestigatorsUnder(db', Len(db'.NIH_PROJECT)) =
                    award'.principal_investigators]_vars

\* The records received so far that came from the i-th file.
RecordsOf(i) == SelectSeq(records, LAMBDA r : r.source_file_name = xml_files[i].xml_file)

\* How many events of the i-th file the generator has taken from the parser.
Consumed(i) ==
    IF i < gen.f THEN Len(xml_files[i].doc) ELSE IF i = gen.f THEN gen.p - 1 ELSE 0

\* End events of row elements among the first n events of doc.
RowEnds(doc, n) == Cardinality({k \in 1..n : doc[k].ev = "end" /\ doc[k].tag = "row"})

\* C12: the records of each file carry the row numbers 0, 1, 2, ... in yield
\* order, starting at 0 in every file, and a file has given as many records
\* as row elements were closed in the part of it read so far.
C12_RowNumbering ==
    \A i \in 1..Len(xml_files) :
        /\ \A j \in 1..Len(RecordsOf(i)) : RecordsOf(i)[j].source_file_row_number = j - 1
        /\ Len(RecordsOf(i)) = RowEnds(xml_files[i].doc, Consumed(i))

\* C12 witness: two files of two rows each were read to the end.
C12_Witness ==
    /\ pc = "exhausted"
    /\ Len(xml_files) = 2
    /\ Len(RecordsOf(1)) = 2
    /\ Len(RecordsOf(2)) = 2
    /\ records[3].source_file_row_number = 0

\* Position of the first point of doc that is not well formed (Len(doc) + 1
\* when there is none).
FirstMalformed(doc) ==
    IF \E k \in 1..Len(doc) : doc[k].ev = "error"
    THEN CHOOSE k \in 1..Len(doc) :
             doc[k].ev = "error" /\ \A m \in 1..(k - 1) : doc[m].ev # "error"
    ELSE Len(doc) + 1

\* C13: a record is received only when the end of its row has been read; a
\* record of row n of a file is received only if no earlier file has a
\* malformed point and row n is closed before the first malformed point of
\* its own file; when ParseError is raised inside row r of a file, the records
\* of that file are those of its rows before r and no later file has given a
\* record; and once the generator has raised, no record is received.
C13_OnlyCompleteRecords ==
    /\ [](\A r \in 1..Len(records) :
             LET i == FileIndex(records[r])
                 n == records[r].source_file_row_number
                 doc == xml_files[i].doc
             IN  /\ RowEnds(doc, Consumed(i)) > n
                 /\ RowEnds(doc, FirstMalformed(doc) - 1) > n
                 /\ \A j \in 1..(i - 1) :
                       FirstMalformed(xml_files[j].doc) > Len(xml_files[j].doc))
    /\ [](pc \in {"raised", "stopped"} /\ exc = "ParseError" =>
             LET doc == xml_files[gen.f].doc
             IN  /\ Consumed(gen.f) = FirstMalformed(doc) - 1
                 /\ Len(RecordsOf(gen.f)) = RowEnds(doc, FirstMalformed(doc) - 1)
                 /\ \A j \in (gen.f + 1)..Len(xml_files) : RecordsOf(j) = <<>>)
    /\ [][pc = "raised" => records' = records /\ pc' = "stopped"]_vars

\* C13 witness: the second file was cut inside its second row; three records
\* were received, then ParseError, then StopIteration.
C13_Witness ==
    /\ pc = "stopped"
    /\ exc = "ParseError"
    /\ gen.f = 2
    /\ Len(RecordsOf(1)) = 2
    /\ Len(RecordsOf(2)) = 1

\* The texts of the TERM elements with text closed among the events evs, in order.
RECURSIVE ClaimedTerms(_)
ClaimedTerms(evs) ==
    IF evs = <<>> THEN <<>>
    ELSE IF Head(evs).ev = "end" /\ Head(evs).tag = "TERM" /\ Head(evs).text # None
    THEN <<Head(evs).text>> \o ClaimedTerms(Tail(evs))
    ELSE ClaimedTerms(Tail(evs))

\* C14: the project_terms of every record are the texts of the TERM elements
\* with text closed inside the record's own row, in source order, repeated
\* values kept.
C14_TermsInOrderWithDuplicates ==
    \A r \in 1..Len(records) :
        records[r].project_terms =
            ClaimedTerms(RowEvents(xml_files[FileIndex(records[r])].doc,
                                   records[r].source_file_row_number + 1))

\* C14 witness: a row with the terms cancer, cancer was followed by a row
\* with a TERM element without text and the term brain.
C14_Witness ==
    /\ Len(records) = 2
    /\ records[1].project_terms = <<"cancer", "cancer">>
    /\ records[2].project_terms = <<"brain">>
    /\ Len(ClaimedTerms(xml_files[1].doc)) = 3
    /\ \E k \in 1..Len(xml_files[1].doc) :
          xml_files[1].doc[k] = EndEv("TERM", None)

\* Is the text four decimal digits?
FourDigitYear(t) == Len(t) = 4 /\ \A i \in 1..4 : t[i] \in Digit(0)..Digit(9)

\* C15 (as claimed): a run whose fiscal-year range is rejected has created no
\* table, written no row and acquired no file; and every pair of four-digit
\* years with start <= stop is accepted.
C15_ConfigurationErrorBeforeStore ==
    /\ pc = "rejected" => tables = {} /\ disk = EmptyDb /\ xml_files = <<>>
    /\ /\ runs >= 1
       /\ FourDigitYear(fiscal_year_start)
       /\ FourDigitYear(fiscal_year_end)
       /\ ParseYear(fiscal_year_start) <= ParseYear(fiscal_year_end)
       => pc # "rejected"

\* C15, where the code meets it: a rejected run has written no row and
\* acquired no file, and a range is rejected exactly when a bound is not a
\* year 1900..2099 (whitespace around it apart) or start > stop.
C15_RejectedBeforeRowsAndFiles ==
    /\ pc = "rejected" => disk = EmptyDb /\ xml_files = <<>>
    /\ runs >= 1 =>
          (pc = "rejected" <=>
              LET stop == IF fiscal_year_end = NoYear THEN fiscal_year_start
                          ELSE fiscal_year_end
              IN  \/ ~MatchesFiscalYear(fiscal_year_start)
                  \/ ~MatchesFiscalYear(stop)
                  \/ ParseYear(Strip(fiscal_year_start)) > ParseYear(Strip(stop)))

\* The committed database holds the k-th file of the batch in full.
HeldInFull(k) ==
    \E id \in Ids(disk.NIH_SOURCE_FILE) :
        /\ disk.NIH_SOURCE_FILE[id].source_file_name = batch[k].xml_file
        /\ FullyLoaded(disk, id)

\* Does the k-th file of the batch have a record?
HasRecords(k) == Drain(NewGen, <<batch[k]>>) # <<>>

\* Position in the batch of the file a record came from.
BatchIndex(a) == CHOOSE i \in 1..Len(batch) : batch[i].xml_file = a.source_file_name

\* C16 (as claimed): once the generator has gone on from file k to a later
\* file, the rows of file k are committed, whatever happens in the later file.
C16_FileCommittedBeforeNext ==
    \A k \in 1..Len(batch) : k < gen.f /\ HasRecords(k) => HeldInFull(k)

\* C16, where the code meets it: the rows of file k are committed once a record
\* of a later file has been received.
C16_CommittedAtNextFirstRecord ==
    \A k \in 1..Len(batch) :
        award # Unbound /\ k < BatchIndex(award) /\ HasRecords(k) => HeldInFull(k)

\* The run stopped on an error of extraction or persistence.
StoppedOnError == pc = "failed" /\ exc # "RuntimeError"

\* C17 (as claimed): a run that stops on an extraction or persistence error
\* reports the name and date of the file the generator was in when the error
\* occurred, also when no record of that file, or of the batch, had been
\* yielded, and the error that reaches the caller is the original one.
C17_ReportNamesFailingFile ==
    StoppedOnError =>
        /\ Len(out) = 1
        /\ out[1].source_file_name = xml_files[gen.f].xml_file
        /\ out[1].source_file_date = xml_files[gen.f].file_date
        /\ exc \in {"ParseError", "IntegrityError", "OperationalError"}

\* C17, where the code meets it: the report names the file of the failure
\* whenever a record of that file had been received before the error.
C17_ReportAfterFirstRecord ==
    StoppedOnError /\ award # Unbound /\ FileIndex(award) = gen.f =>
        /\ Len(out) = 1
        /\ out[1].source_file_name = xml_files[gen.f].xml_file
        /\ out[1].source_file_date = xml_files[gen.f].file_date
        /\ exc \in {"ParseError", "IntegrityError", "OperationalError"}

\* The rows one uninterrupted pass of the loop over the records recs leaves,
\* starting from the rows d with the current file id fid: every first record
\* registers its file, every record is persisted.
RECURSIVE LoadRecords(_, _, _)
LoadRecords(recs, d, fid) ==
    IF recs = <<>> THEN d
    ELSE LET a   == Head(recs)
             reg == insert_source_file(d, a.source_file_name, a.source_file_date,
                                       a.source_fiscal_year)
             d1  == IF IsNewFile(a) THEN reg.db ELSE d
             f1  == IF IsNewFile(a) THEN reg.lastrowid ELSE fid
         IN  LoadRecords(Tail(recs), insert_award_file(d1, a, f1, FALSE, FALSE).db, f1)

\* The stores a single uninterrupted successful run over the batch may leave
\* on a new database file (one per row order the precedence SELECT may return).
CleanResults ==
    LET loaded == LoadRecords(Drain(NewGen, batch), EmptyDb, 0)
    IN  {SetCurrent(SetPrecedence(loaded, rows)) : rows \in SelectOrdered(loaded)}

\* C18: whenever a run succeeds, after whatever aborted and crashed runs over
\* the same batch, the store is one a single uninterrupted successful run
\* leaves: the same registered files, project rows, precedences and flags.
C18_ResumeConvergesToCleanResult == pc = "done" => disk \in CleanResults

\* C18 witness: a run succeeded after a run that was interrupted with rows of
\* the second file pending; both files are held with their two rows.
C18_Witness ==
    /\ pc = "done"
    /\ intr = 2
    /\ Len(disk.NIH_SOURCE_FILE) = 2
    /\ CountProjects(disk, 1) = 2
    /\ CountProjects(disk, 2) = 2

\* A run has ended: it returned or an exception reached the caller.
RunEnded == pc \in {"done", "failed"}

\* C19 (as claimed): at the end of every run, every registered file that holds
\* project rows has its precedence set and every application_id with
\* persisted rows has a row flagged 'Y', also when the run aborted on a later
\* file after committing an earlier one.
C19_DerivedStateFollowsFiles ==
    RunEnded =>
        /\ \A p \in Ids(disk.NIH_PROJECT) : PrecedenceOf(disk, p) # NULL
        /\ \A app \in AppsOf(disk) :
              \E p \in RowsOfApp(disk, app) :
                  disk.NIH_PROJECT[p].is_current_application_id = "Y"

\* C19, where the code meets it: the derived state is complete at the end of
\* every run that returned.
C19_DerivedStateAfterSuccess ==
    pc = "done" =>
        /\ \A id \in Ids(disk.NIH_SOURCE_FILE) :
              disk.NIH_SOURCE_FILE[id].source_file_precedence_order # NULL
        /\ \A app \in AppsOf(disk) :
              \E p \in RowsOfApp(disk, app) :
                  disk.NIH_PROJECT[p].is_current_application_id = "Y"

\* At most one project row of each application_id is flagged 'Y' in d.
AtMostOneCurrent(d) ==
    \A app \in AppsOf(d) :
        Cardinality({p \in RowsOfApp(d, app) :
                        d.NIH_PROJECT[p].is_current_application_id = "Y"}) <= 1

\* C20: in every committed state, after any sequence of successful runs,
\* aborted runs and crashes, at most one row per application_id is flagged 'Y'.
C20_AtMostOneCurrentAlways == AtMostOneCurrent(disk)

\* C20 witness: the process died between the two recomputations of a run that
\* followed a successful run; an application_id held by two files has its one
\* flagged row in the file that no longer has the smallest precedence.
C20_Witness ==
    /\ pc = "crashed"
    /\ calls = <<"precedence">>
    /\ \E app \in AppsOf(disk) :
          /\ Cardinality(RowsOfApp(disk, app)) = 2
          /\ \E p \in RowsOfApp(disk, app) :
                /\ disk.NIH_PROJECT[p].is_current_application_id = "Y"
                /\ PrecedenceOf(disk, p) = 2

\* The precedence values of the files of d are exactly 1..n, each once.
IsRanking(d) ==
    LET F == d.NIH_SOURCE_FILE
    IN  /\ \A id \in Ids(F) : F[id].source_file_precedence_order \in 1..Len(F)
        /\ \A i, j \in Ids(F) :
              i # j => F[i].source_file_precedence_order # F[j].source_file_precedence_order

\* The step is update_source_file_precedence over files that were all ranked
\* by an earlier recomputation (no file was registered since).
RecomputeUnchanged ==
    /\ pc = "prec"
    /\ pc' = "cur"
    /\ disk.NIH_SOURCE_FILE # <<>>
    /\ IsRanking(disk)

\* Do two registered files of d share fiscal year and date?
HasTies(d) ==
    \E i, j \in Ids(d.NIH_SOURCE_FILE) :
        /\ i # j
        /\ d.NIH_SOURCE_FILE[i].source_file_fiscal_year =
               d.NIH_SOURCE_FILE[j].source_file_fiscal_year
        /\ d.NIH_SOURCE_FILE[i].source_file_date = d.NIH_SOURCE_FILE[j].source_file_date

C21_RankingStableWithoutTies ==
    /\ [](pc \in {"cur", "done"} => IsRanking(disk))
    /\ [][RecomputeUnchanged /\ ~HasTies(disk) =>
             disk'.NIH_SOURCE_FILE = disk.NIH_SOURCE_FILE]_vars

\* Positions of the start events of the PI elements among the events evs.
GroupStarts(evs) == {k \in 1..Len(evs) : evs[k].ev = "start" /\ evs[k].tag = "PI"}

\* Position of the end event of the PI element that starts at k.
GroupEnd(evs, k) ==
    CHOOSE m \in k..Len(evs) :
        /\ evs[m].ev = "end" /\ evs[m].tag = "PI"
        /\ \A i \in k..(m - 1) : ~(evs[i].ev = "end" /\ evs[i].tag = "PI")

\* The text of the element tag inside the PI element that starts at k, the
\* empty value when the group has no such text.
FieldOfGroup(evs, k, tag) ==
    LET inside == {i \in k..GroupEnd(evs, k) :
                      evs[i].ev = "end" /\ evs[i].tag = tag /\ evs[i].text # None}
    IN  IF inside = {} THEN "" ELSE evs[CHOOSE i \in inside : \A j \in inside : j <= i].text

\* C22: every investigator entry of a record carries the PI_NAME and PI_ID
\* texts of one PI element of the record's own row, with the empty value for
\* a field that element lacks, never a text of another group or row.
C22_ScratchLocalToGroup ==
    \A r \in 1..Len(records) :
        LET evs == RowEvents(xml_files[FileIndex(records[r])].doc,
                             records[r].source_file_row_number + 1)
            pis == records[r].principal_investigators
        IN  \A n \in 1..Len(pis) :
                \E k \in GroupStarts(evs) :
                    /\ pis[n].pi_name = FieldOfGroup(evs, k, "PI_NAME")
                    /\ pis[n].pi_id = FieldOfGroup(evs, k, "PI_ID")

\* C22 witness: the second row's first group has both fields, its second
\* group has no PI_NAME text and gets the empty name; the row before had a
\* group of its own.
C22_Witness ==
    /\ Len(records) = 2
    /\ records[1].principal_investigators = <<[pi_name |-> "POE, P", pi_id |-> "7003"]>>
    /\ records[2].principal_investigators =
           <<[pi_name |-> "DOE, J", pi_id |-> "7001"], [pi_name |-> "", pi_id |-> "7002"]>>

\* The options that are on cannot fail on the record: no term is repeated
\* when terms are stored, no pi_id when investigators are stored.
StoredGroupsDistinct(a) ==
    /\ is_store_terms => ~Repeats(a.project_terms)
    /\ is_store_investigators =>
          ~Repeats([i \in 1..Len(a.principal_investigators) |->
                       a.principal_investigators[i].pi_id])

\* C23: in a run with store_terms off no term row exists in the connection
\* or in the committed database, likewise for store_investigators and the
\* investigator rows, and the project row of every persisted record is
\* written whatever groups the options leave out.
C23_OptionGating ==
    /\ [](~is_store_terms =>
             db.NIH_PROJECT_TERM = <<>> /\ disk.NIH_PROJECT_TERM = <<>>)
    /\ [](~is_store_investigators =>
             db.NIH_PROJECT_INVESTIGATOR = <<>> /\ disk.NIH_PROJECT_INVESTIGATOR = <<>>)
    /\ [](tables \subseteq CreatedTables(is_store_terms, is_store_investigators))
    /\ [][PersistStep /\ StoredGroupsDistinct(award') =>
             /\ pc' = "loop"
             /\ Len(db'.NIH_PROJECT) = Len(db.NIH_PROJECT) + 1
             /\ db'.NIH_PROJECT[Len(db'.NIH_PROJECT)].application_id =
                    award'.application_id]_vars

\* C23 witness: a run with both options off has returned after persisting a
\* record with a repeated term next to another record.
C23_Witness ==
    /\ pc = "done"
    /\ ~is_store_terms
    /\ ~is_store_investigators
    /\ Len(disk.NIH_PROJECT) = 2
    /\ \E j \in 1..Len(Drain(NewGen, batch)) : Repeats(Drain(NewGen, batch)[j].project_terms)

\* The files get_files_in_fiscal_year_range acquires for the range of the call.
FilesOfRange ==
    find_zip_file_urls(batch, NIHAwardFile(fiscal_year_start, fiscal_year_end))

\* C24 (as claimed): in every run the files iterated are the files of the
\* catalog in the run's own range, and every record received comes from one
\* of them, whatever ranges earlier calls in the process had.
C24_InstancesIndependent ==
    pc \in {"loop", "prec", "cur", "done"} =>
        /\ xml_files = FilesOfRange
        /\ award # Unbound =>
              \E i \in 1..Len(FilesOfRange) :
                  FilesOfRange[i].xml_file = award.source_file_name

\* C24, where the code meets it: a call that finds the list of the class
\* empty (the first call of a process that acquires files) iterates the files
\* of its own range.
C24_FirstAcquisition ==
    [][xml_files = <<>> /\ pc' = "loop" => xml_files' = FilesOfRange']_vars

\* The ids of the NIH_SOURCE_FILE entries of d whose (name, date) are those
\* of the record a.
EntriesOf(d, a) ==
    {i \in Ids(d.NIH_SOURCE_FILE) :
        /\ d.NIH_SOURCE_FILE[i].source_file_name = a.source_file_name
        /\ d.NIH_SOURCE_FILE[i].source_file_date = a.source_file_date}

\* The step is a complete pass of the loop body on a record the generator
\* yielded, persisted or skipped (the process is not killed during it).
YieldStep ==
    /\ pc = "loop"
    /\ gen' # gen
    /\ gen'.st = "yielded"
    /\ pc' # "crashed"

\* C25: after every pass of the loop body, on a file that is loaded or on one
\* that is skipped, the current file id is the id of the one NIH_SOURCE_FILE
\* entry with the (name, date) of the record just received; every project
\* row a pass writes carries that id; and every project row in the store
\* points at a registered file.
C25_RowsCarryTheirFileId ==
    /\ [][YieldStep =>
            EntriesOf(db', award') = {cur_file_id'}]_vars
    /\ [][PersistStep /\ Len(db'.NIH_PROJECT) > Len(db.NIH_PROJECT) =>
            /\ Len(db'.NIH_PROJECT) = Len(db.NIH_PROJECT) + 1
            /\ EntriesOf(db', award') =
                   {db'.NIH_PROJECT[Len(db'.NIH_PROJECT)].nih_source_file_id}]_vars
    /\ [](\A i \in Ids(db.NIH_PROJECT) :
            db.NIH_PROJECT[i].nih_source_file_id \in Ids(db.NIH_SOURCE_FILE))

\* A later run skips the first file, loaded before under id 1, and writes a
\* row of the second file, registered before without rows, under id 2.
C25_Witness ==
    /\ pc = "loop"
    /\ runs >= 2
    /\ award # Unbound
    /\ FileIndex(award) = 2
    /\ ~is_source_file_loaded
    /\ cur_file_id = 2
    /\ CountProjects(disk, 1) >= 1
    /\ CountProjects(disk, 2) = 0
    /\ CountProjects(db, 2) >= 1
    /\ Len(disk.NIH_SOURCE_FILE) = 2

\* The file is well formed and holds no row element.
ZeroRow(file) == file.doc \in {WellFormedDoc(0), EmptyCompactDoc}

\* The store d holds an NIH_SOURCE_FILE entry for the file.
Registered(d, file) ==
    \E i \in Ids(d.NIH_SOURCE_FILE) :
        d.NIH_SOURCE_FILE[i].source_file_name = file.xml_file

\* The step is next(generator) ending in an exception.
RaiseStep ==
    /\ pc = "loop"
    /\ gen' # gen
    /\ gen'.st = "raised"

\* C26 (as claimed): a well-formed file without rows is never registered,
\* the extractor never raises while it reads one (so it causes no rollback
\* and the run goes on to the file after it), and a run that gets through
\* its batch has registered and loaded every file that holds a row.
C26_ZeroRowFilesLeaveNoTrace ==
    /\ [](\A i \in 1..Len(xml_files) :
            ZeroRow(xml_files[i]) =>
                ~Registered(db, xml_files[i]) /\ ~Registered(disk, xml_files[i]))
    /\ [][RaiseStep => ~ZeroRow(xml_files[gen'.f])]_vars
    /\ [](pc \in {"prec", "cur", "done"} =>
            \A i \in 1..Len(xml_files) :
                RowStarts(xml_files[i].doc) > 0 => Registered(disk, xml_files[i]))

\* C26 (what the code does): as claimed, except that the extractor raises
\* UnboundLocalError at the end of an indented file without rows when no row
\* of an earlier file of the batch came before it; the run then stops with
\* nothing reported and the store as committed before.
C26_ZeroRowAfterARow ==
    /\ [](\A i \in 1..Len(xml_files) :
            ZeroRow(xml_files[i]) =>
                ~Registered(db, xml_files[i]) /\ ~Registered(disk, xml_files[i]))
    /\ [][RaiseStep /\ ZeroRow(xml_files[gen'.f]) =>
            /\ xml_files[gen'.f].doc = WellFormedDoc(0)
            /\ \A j \in 1..(gen'.f - 1) : RowStarts(xml_files[j].doc) = 0
            /\ gen'.exc = "UnboundLocalError"
            /\ exc' = "UnboundLocalError"
            /\ pc' = "failed"
            /\ out' = out
            /\ disk' = disk]_vars
    /\ [](pc \in {"prec", "cur", "done"} =>
            \A i \in 1..Len(xml_files) :
                RowStarts(xml_files[i].doc) > 0 => Registered(disk, xml_files[i]))

\* An indented file without rows after a file with rows: the run has ended
\* with the first file loaded and the second not registered.
C26_ZeroRowAfterLoadedFile ==
    /\ pc = "done"
    /\ Len(xml_files) = 2
    /\ RowStarts(xml_files[1].doc) > 0
    /\ xml_files[2].doc = WellFormedDoc(0)
    /\ CountProjects(disk, 1) > 0
    /\ Len(disk.NIH_SOURCE_FILE) = 1

====
